---- MODULE Spec2Model ----
(***************************************************************************)
(* Configuration and webhook lifecycle of the payment app: the per-tenant  *)
(* AppConfig aggregate (AppConfigurator), the entry lifecycle operations   *)
(* of the config manager (add / update / delete), the channel mapping      *)
(* operations and the channel resolution query.  Every asynchronous        *)
(* operation is split at its awaits, so that several operations on the     *)
(* same tenant can interleave.                                              *)
(***************************************************************************)
EXTENDS Integers, Sequences, FiniteSets, TLC

\* ------------------------------------------------------------------ bounds
MaxIds == 3
MaxRaces == 3

\* the slots of operations in flight on one tenant: two callers
Procs == {1, 2}

\* ------------------------------------------------------------ input values
Channels == {"c1", "c2"}
Names == {"shop"}
sk_1 == <<"s", "k", "_", "1">>
rk_1 == <<"r", "k", "_", "1">>
pk_1 == <<"p", "k", "_", "1">>
rk_ == <<"r", "k", "_">>
SecretKeys == {sk_1, rk_1}
PublishableKeys == {pk_1}

\* JS values that are not entries or strings of the model
Undefined == "undefined"
Null == [null |-> TRUE]

\* uuidv7(): the n-th identifier generated; distinct for distinct n
uuidv7(n) == "id" \o ToString(n)
\* the id a freshly provisioned remote webhook gets, and its signing secret
WebhookIdOf(n) == "we_" \o ToString(n)
WebhookSecretOf(w) == "whsec_" \o w

IdUniverse == {uuidv7(n) : n \in 1..MaxIds}

\* the form data of Add, and the partial entries of Update
FormEntries ==
  [configurationName : Names, secretKey : SecretKeys, publishableKey : PublishableKeys]
UpdateEntries ==
  {[configurationName |-> "pos"], [configurationName |-> "shop", publishableKey |-> pk_1]}
\* the mappings setMapping is called with: one channel set to an id
NewMappings == {[c \in {ch} |-> id] : ch \in Channels, id \in IdUniverse}
\* the channel ids a request may carry, the missing ones included; null is not a
\* string and is passed on its own (NullChannelInputs)
ChannelInputs == Channels \cup {Undefined, ""}
NullChannelInputs == {Null}

\* ------------------------------------------------------------ pure helpers
\* object spread { ...a, ...b }
Spread(a, b) ==
  [f \in (DOMAIN a) \cup (DOMAIN b) |-> IF f \in DOMAIN b THEN b[f] ELSE a[f]]

\* property read obj.f, undefined when the property is absent
Get(obj, f) == IF f \in DOMAIN obj THEN obj[f] ELSE Undefined

\* String.prototype.startsWith on strings held as character sequences
StartsWith(s, prefix) ==
  /\ Len(s) >= Len(prefix)
  /\ SubSeq(s, 1, Len(prefix)) = prefix

\* Array.prototype.findIndex on configurationId; 0 stands for -1
FindIndex(configurations, configurationId) ==
  IF \E i \in 1..Len(configurations) : Get(configurations[i], "configurationId") = configurationId
  THEN CHOOSE i \in 1..Len(configurations) :
         /\ Get(configurations[i], "configurationId") = configurationId
         /\ \A j \in 1..(i - 1) : Get(configurations[j], "configurationId") # configurationId
  ELSE 0

\* Array.prototype.filter(entry => entry.configurationId !== configurationId)
RECURSIVE FilterOutId(_, _)
FilterOutId(configurations, configurationId) ==
  IF configurations = <<>> THEN <<>>
  ELSE LET rest == FilterOutId(Tail(configurations), configurationId)
       IN IF Get(Head(configurations), "configurationId") # configurationId
          THEN <<Head(configurations)>> \o rest
          ELSE rest

\* Object.fromEntries(Object.entries(m).filter(([, configId]) => configId !== configurationId))
FilterOutMapping(m, configurationId) ==
  [c \in {k \in DOMAIN m : m[k] # configurationId} |-> m[c]]

IdsOf(configurations) ==
  {Get(configurations[i], "configurationId") : i \in 1..Len(configurations)}

\* FieldError subclasses: the fieldName each error class carries
FieldNameOf(error) ==
  CASE error = "RestrictedKeyNotSupportedError" -> "secretKey"
    [] error = "InvalidSecretKeyError" -> "secretKey"
    [] error = "UnexpectedSecretKeyError" -> "secretKey"
    [] error = "InvalidPublishableKeyError" -> "publishableKey"
    [] error = "UnexpectedPublishableKeyError" -> "publishableKey"
    [] OTHER -> Undefined

\* adyenAppConfigSchema.parse(undefined): the defaults of the schema
EmptyConfig == [configurations |-> <<>>, channelToConfigurationId |-> <<>>]

\* PrivateMetadataAppConfigurator.setConfig: merge field by field, or replace; the
\* result is the aggregate as getConfig parses it, a field the stored value lacks
\* reading as its default
SetConfig(stored, newConfig, replace) ==
  IF replace THEN Spread(EmptyConfig, newConfig) ELSE Spread(stored, newConfig)

\* mutant: the configurator is always asked to replace the stored aggregate
AppConfigurator_setConfig_AlwaysReplaces(stored, newConfig, replace) ==
  SetConfig(stored, newConfig, TRUE)

\* AppConfigurator.setConfig(newConfig, replace = false): hands both to the configurator
AppConfigurator_setConfig(stored, newConfig, replace) ==
  SetConfig(stored, newConfig, replace)

\* mutant: an existing entry is overwritten by the supplied fields, not merged
SetConfigEntryList_Overwrites(configurations, newConfiguration) ==
  LET existingEntryIndex == FindIndex(configurations, newConfiguration.configurationId)
  IN IF existingEntryIndex # 0
     THEN [configurations EXCEPT ![existingEntryIndex] = newConfiguration]
     ELSE Append(configurations, newConfiguration)

\* mutant: the new configuration is appended without looking for an existing entry
SetConfigEntryList_AlwaysAppends(configurations, newConfiguration) ==
  Append(configurations, newConfiguration)

\* AppConfigurator.setConfigEntry, after its read: the list it writes
SetConfigEntryList(configurations, newConfiguration) ==
  LET existingEntryIndex == FindIndex(configurations, newConfiguration.configurationId)
  IN IF existingEntryIndex # 0
     THEN [configurations EXCEPT
             ![existingEntryIndex] = Spread(configurations[existingEntryIndex], newConfiguration)]
     ELSE Append(configurations, newConfiguration)

\* mutant: the entry is filtered out, the mappings pointing to it are kept
DeleteConfigEntryConfig_KeepsMappings(oldConfig, configurationId) ==
  Spread(oldConfig,
    [configurations |-> FilterOutId(oldConfig.configurations, configurationId)])

\* AppConfigurator.deleteConfigEntry, after its read: the aggregate it writes
DeleteConfigEntryConfig(oldConfig, configurationId) ==
  Spread(oldConfig,
    [configurations |-> FilterOutId(oldConfig.configurations, configurationId),
     channelToConfigurationId |->
       FilterOutMapping(oldConfig.channelToConfigurationId, configurationId)])

\* mutant: the entry being deleted is counted among the users of its webhook
IsWebhookUsed_CountsItself(entries, existingEntry, configurationId) ==
  \E i \in 1..Len(entries) :
    Get(entries[i], "webhookId") = Get(existingEntry, "webhookId")

\* deleteConfigEntry (config manager): is the webhook of existingEntry used by another entry
IsWebhookUsed(entries, existingEntry, configurationId) ==
  LET otherEntries == FilterOutId(entries, configurationId)
  IN \E i \in 1..Len(otherEntries) :
       Get(otherEntries[i], "webhookId") = Get(existingEntry, "webhookId")

\* !v: the JS values that are falsy (undefined, null, "", 0, false); strings and
\* objects are told apart by their printed form, equality being defined per type
Falsy(v) ==
  ToString(v) \in {ToString(Undefined), ToString(Null), ToString(""), ToString(0),
                   ToString(FALSE)}

\* mutant: a mapped channel falls back to the first entry when its id matches none
getConfigurationForChannel_FallsBack(appConfig, channelId) ==
  IF Falsy(channelId) THEN Null
  ELSE LET configurationId == Get(appConfig.channelToConfigurationId, channelId)
       IN IF Falsy(configurationId) THEN Null
          ELSE LET i == FindIndex(appConfig.configurations, configurationId)
               IN IF i # 0 THEN appConfig.configurations[i]
                  ELSE IF appConfig.configurations # <<>> THEN appConfig.configurations[1]
                  ELSE Null

\* getConfigurationForChannel
getConfigurationForChannel(appConfig, channelId) ==
  IF Falsy(channelId) THEN Null
  ELSE LET configurationId == Get(appConfig.channelToConfigurationId, channelId)
       IN IF Falsy(configurationId) THEN Null
          ELSE LET i == FindIndex(appConfig.configurations, configurationId)
               IN IF i = 0 THEN Null ELSE appConfig.configurations[i]

\* ------------------------------------------------- transaction session mapper
\* TransactionFlowStrategyEnum, and a value that is neither member
Authorization == "AUTHORIZATION"
Charge == "CHARGE"
Strategies == {Authorization, Charge, "UNKNOWN_STRATEGY"}

\* Stripe.PaymentIntent.Status, and a status Stripe may add later
HandledStatuses ==
  {"requires_payment_method", "processing", "requires_action", "requires_capture",
   "requires_confirmation", "canceled", "succeeded"}
Statuses == HandledStatuses \cup {"requires_review", "partially_funded"}

\* an object without properties
EmptyObject == [f \in {} |-> Undefined]

\* event.sourceObject: a Checkout or an Order; amounts are held in hundredths
SourceObjects ==
  {[__typename |-> "Checkout", id |-> "chk1", channel |-> [id |-> "c1"],
    total |-> [gross |-> [amount |-> 22299, currency |-> "USD"]]],
   [__typename |-> "Order", id |-> "ord1", channel |-> [id |-> "c2"],
    total |-> [gross |-> [amount |-> 22299, currency |-> "JPY"]]]}

\* event.data: the caller-supplied payload (JSON, possibly null)
DataPayloads ==
  {Null,
   EmptyObject,
   [automatic_payment_methods |-> [enabled |-> TRUE]],
   [automatic_payment_methods |-> [enabled |-> FALSE], capture_method |-> "manual"],
   [capture_method |-> "automatic"],
   [capture_method |-> "manual", metadata |-> [note |-> "gift"]],
   [metadata |-> [note |-> "gift", orderId |-> "ord9"]],
   [metadata |-> [checkoutId |-> "chk9", transactionId |-> "tx9", channelId |-> "c9"]]}

SessionEvents ==
  [action : [actionType : Strategies], sourceObject : SourceObjects,
   transaction : {[id |-> "tx1"]}, data : DataPayloads]

\* getStripeAmountFromSaleorMoney: hundredths of the major unit to Stripe's minor unit
ZeroDecimalCurrencies == {"JPY"}
getStripeAmountFromSaleorMoney(money) ==
  IF money.currency \in ZeroDecimalCurrencies
  THEN (money.amount + 50) \div 100
  ELSE money.amount

\* the outcome of a synchronous call: a returned value or a thrown error
Returns(v) == [returned |-> v]
Throws(error) == [threw |-> error]

\* metadata: { ...data.metadata, transactionId, channelId, checkoutId? / orderId? }
RequestMetadata(event) ==
  LET dataMetadata == IF "metadata" \in DOMAIN event.data THEN event.data.metadata
                      ELSE EmptyObject
      ids == [transactionId |-> event.transaction.id,
              channelId |-> event.sourceObject.channel.id]
      checkout == IF event.sourceObject.__typename = "Checkout"
                  THEN [checkoutId |-> event.sourceObject.id] ELSE EmptyObject
      order == IF event.sourceObject.__typename = "Order"
               THEN [orderId |-> event.sourceObject.id] ELSE EmptyObject
  IN Spread(Spread(Spread(dataMetadata, ids), checkout), order)

\* capture_method: actionType === Charge ? "automatic" : "manual"
CaptureMethod(event) ==
  IF event.action.actionType = Charge THEN "automatic" ELSE "manual"

\* mutant: the caller-supplied payload is spread last and wins over the computed fields
transactionSessionInitializeEventToStripeCreate_DataWins(event) ==
  IF event.data = Null THEN Throws("TypeError")
  ELSE Returns(Spread(
         [amount |-> getStripeAmountFromSaleorMoney(event.sourceObject.total.gross),
          currency |-> event.sourceObject.total.gross.currency,
          automatic_payment_methods |-> [enabled |-> TRUE],
          capture_method |-> CaptureMethod(event),
          metadata |-> RequestMetadata(event)],
         event.data))

\* transactionSessionInitializeEventToStripeCreate; reading data.metadata of a null
\* payload throws
transactionSessionInitializeEventToStripeCreate(event) ==
  IF event.data = Null THEN Throws("TypeError")
  ELSE Returns(Spread(event.data,
         [amount |-> getStripeAmountFromSaleorMoney(event.sourceObject.total.gross),
          currency |-> event.sourceObject.total.gross.currency,
          automatic_payment_methods |-> [enabled |-> TRUE],
          capture_method |-> CaptureMethod(event),
          metadata |-> RequestMetadata(event)]))

\* transactionSessionProcessEventToStripeUpdate
transactionSessionProcessEventToStripeUpdate(event) ==
  IF event.data = Null THEN Throws("TypeError")
  ELSE Returns(Spread(event.data,
         [amount |-> getStripeAmountFromSaleorMoney(event.sourceObject.total.gross),
          currency |-> event.sourceObject.total.gross.currency,
          capture_method |-> CaptureMethod(event),
          metadata |-> RequestMetadata(event)]))

\* invariant(condition, message): passes on a truthy condition, throws otherwise
NoPrefix == "null"
invariant(condition) == ~(condition = NoPrefix \/ Falsy(condition))

\* mutant: an intent waiting for capture is reported as a success
ResultForStatus_CaptureIsSuccess(prefix, stripeResult) ==
  CASE stripeResult \in {"requires_payment_method", "processing"} -> prefix \o "_REQUESTED"
    [] stripeResult \in {"requires_action", "requires_confirmation"} ->
         prefix \o "_ACTION_REQUIRED"
    [] stripeResult = "canceled" -> prefix \o "_FAILURE"
    [] stripeResult \in {"succeeded", "requires_capture"} -> prefix \o "_SUCCESS"
    [] OTHER -> Undefined

\* the switch over stripePaymentIntent.status; no case, no return value
ResultForStatus(prefix, stripeResult) ==
  CASE stripeResult \in {"requires_payment_method", "processing"} -> prefix \o "_REQUESTED"
    [] stripeResult \in {"requires_action", "requires_capture", "requires_confirmation"} ->
         prefix \o "_ACTION_REQUIRED"
    [] stripeResult = "canceled" -> prefix \o "_FAILURE"
    [] stripeResult = "succeeded" -> prefix \o "_SUCCESS"
    [] OTHER -> Undefined

\* mutant: a strategy that is not Authorization is taken to be Charge
stripePaymentIntentToTransactionResult_DefaultsToCharge(transactionFlowStrategy, stripePaymentIntent) ==
  LET stripeResult == stripePaymentIntent.status
      prefix == IF transactionFlowStrategy = Authorization THEN "AUTHORIZATION" ELSE "CHARGE"
  IN IF ~invariant(prefix) THEN Throws("InvariantError")
     ELSE Returns(ResultForStatus(prefix, stripeResult))

\* stripePaymentIntentToTransactionResult
stripePaymentIntentToTransactionResult(transactionFlowStrategy, stripePaymentIntent) ==
  LET stripeResult == stripePaymentIntent.status
      prefix == IF transactionFlowStrategy = Authorization THEN "AUTHORIZATION"
                ELSE IF transactionFlowStrategy = Charge THEN "CHARGE"
                ELSE NoPrefix
  IN IF ~invariant(prefix) THEN Throws("InvariantError")
     ELSE Returns(ResultForStatus(prefix, stripeResult))

\* ------------------------------------------------------------------- state
VARIABLES
  store,      \* the persisted AppConfig aggregate of the tenant
  remote,     \* the processor's live webhooks: records [webhookId, secretKey]
  retired,    \* ids of webhooks the processor has deleted
  nextId,     \* how many uuids have been generated, plus one
  nextWebhook,\* how many webhooks have been provisioned, plus one
  pc,         \* per operation in flight: the await it is suspended at
  local,      \* per operation in flight: its arguments and local constants
  result,     \* per operation: "pending", "ok" or the name of the error thrown
  calls,      \* per operation: the collaborator calls it has issued, in order
  startStore, \* per operation: the store when the operation began
  unserialized \* how many operations were invoked without per-tenant serialization

vars ==
  <<store, remote, retired, nextId, nextWebhook, pc, local, result, calls, startStore,
    unserialized>>

Idle == [op |-> "none"]

Init ==
  /\ store = EmptyConfig
  /\ remote = {}
  /\ retired = {}
  /\ nextId = 1
  /\ nextWebhook = 1
  /\ pc = [p \in Procs |-> "idle"]
  /\ local = [p \in Procs |-> Idle]
  /\ result = [p \in Procs |-> "pending"]
  /\ calls = [p \in Procs |-> <<>>]
  /\ startStore = [p \in Procs |-> EmptyConfig]
  /\ unserialized = 0

\* --------------------------------------------------------- step bookkeeping
AllIdle == \A q \in Procs : pc[q] = "idle"

\* admission of an invocation: serialized callers wait for the tenant to be idle
\* and all run through the first slot;
\* unserialized invocations are counted, and the model explores MaxRaces of them
Admit(p, serial) ==
  IF serial
  THEN AllIdle /\ (\A q \in Procs : p <= q) /\ UNCHANGED unserialized
  ELSE unserialized < MaxRaces /\ unserialized' = unserialized + 1

\* an operation is invoked: its arguments are bound and it runs to its first await;
\* `serial` is the caller's contract of at most one operation in flight per tenant
Begin(p, args, at, serial) ==
  /\ pc[p] = "idle"
  /\ Admit(p, serial)
  /\ pc' = [pc EXCEPT ![p] = at]
  /\ local' = [local EXCEPT ![p] = args]
  /\ result' = [result EXCEPT ![p] = "pending"]
  /\ calls' = [calls EXCEPT ![p] = <<>>]
  /\ startStore' = [startStore EXCEPT ![p] = store]

\* the operation resumes after an await, issues `call` and suspends at `at`
Goto(p, at, bind, call) ==
  /\ pc' = [pc EXCEPT ![p] = at]
  /\ local' = [local EXCEPT ![p] = Spread(@, bind)]
  /\ calls' = [calls EXCEPT ![p] = @ \o call]
  /\ UNCHANGED <<result, startStore, unserialized>>

\* the operation settles: it returns ("ok") or throws (the error's name)
Settle(p, outcome, bind, call) ==
  /\ pc' = [pc EXCEPT ![p] = "done"]
  /\ local' = [local EXCEPT ![p] = Spread(@, bind)]
  /\ calls' = [calls EXCEPT ![p] = @ \o call]
  /\ result' = [result EXCEPT ![p] = outcome]
  /\ UNCHANGED <<startStore, unserialized>>

NoBind == [op \in {} |-> Undefined]
World == <<store, remote, retired, nextId, nextWebhook>>

\* ------------------------------------------------------- validateStripeKeys
\* mutant: the secret key is checked live before its prefix is looked at
ValidateSecretKey_ChecksPrefixLate(p) ==
  /\ pc[p] = "validateStripeKeys"
  /\ UNCHANGED World
  /\ \/ IF StartsWith(local[p].newConfigEntry.secretKey, rk_)
        THEN Settle(p, "RestrictedKeyNotSupportedError", NoBind, <<"paymentIntents.list">>)
        ELSE Goto(p, "validatePublishableKey", NoBind, <<"paymentIntents.list">>)
     \/ Settle(p, "InvalidSecretKeyError", [failedCheck |-> "secretKey"],
               <<"paymentIntents.list">>)

\* restricted-key rejection, then the live check of the secret key
ValidateSecretKey(p) ==
  /\ pc[p] = "validateStripeKeys"
  /\ UNCHANGED World
  /\ IF StartsWith(local[p].newConfigEntry.secretKey, rk_)
     THEN Settle(p, "RestrictedKeyNotSupportedError", NoBind, <<>>)
     ELSE \/ Goto(p, "validatePublishableKey", NoBind, <<"paymentIntents.list">>)
          \/ Settle(p, "InvalidSecretKeyError", [failedCheck |-> "secretKey"],
                    <<"paymentIntents.list">>)

\* mutant: a rejected publishable key is logged and the Add carries on
ValidatePublishableKey_CarriesOn(p) ==
  /\ pc[p] = "validatePublishableKey"
  /\ UNCHANGED World
  /\ \/ Goto(p, "createStripeWebhook", NoBind, <<"tokens.create">>)
     \/ Goto(p, "createStripeWebhook", [failedCheck |-> "publishableKey"],
             <<"tokens.create">>)

\* the live check of the publishable key
ValidatePublishableKey(p) ==
  /\ pc[p] = "validatePublishableKey"
  /\ UNCHANGED World
  /\ \/ Goto(p, "createStripeWebhook", NoBind, <<"tokens.create">>)
     \/ Settle(p, "InvalidSecretKeyError", [failedCheck |-> "publishableKey"],
               <<"tokens.create">>)

\* ------------------------------------------------------------ addConfigEntry
AddStart(p, newConfigEntry, serial) ==
  /\ nextId <= MaxIds
  /\ Begin(p, [op |-> "Add", newConfigEntry |-> newConfigEntry], "validateStripeKeys",
           serial)
  /\ UNCHANGED World

\* createStripeWebhook: the webhooks the provisioner may hand out for a secret key
ProvisionChoices(secretKey) ==
  {[webhookId |-> WebhookIdOf(nextWebhook), secretKey |-> secretKey]}
    \cup {w \in remote : w.secretKey = secretKey}

\* mutant: a provisioning failure is swallowed and the entry is written without webhook
CreateStripeWebhook_SwallowsFailure(p) ==
  /\ pc[p] = "createStripeWebhook"
  /\ nextId' = nextId + 1
  /\ Goto(p, "setConfigEntry",
          [provisioningFailed |-> TRUE,
           config |-> Spread(local[p].newConfigEntry, [configurationId |-> uuidv7(nextId)])],
          <<"createStripeWebhook">>)
  /\ UNCHANGED <<store, remote, retired, nextWebhook>>

\* await createStripeWebhook(...), then uuidv7() and the assembly of the entry
CreateStripeWebhook(p) ==
  /\ pc[p] = "createStripeWebhook"
  /\ \/ /\ Settle(p, "WebhookProvisioningError", [provisioningFailed |-> TRUE],
                  <<"createStripeWebhook">>)
        /\ UNCHANGED World
     \/ \E w \in ProvisionChoices(local[p].newConfigEntry.secretKey) :
          /\ remote' = remote \cup {w}
          /\ nextWebhook' = IF w \in remote THEN nextWebhook ELSE nextWebhook + 1
          /\ nextId' = nextId + 1
          /\ Goto(p, "setConfigEntry",
                  [config |-> Spread(local[p].newConfigEntry,
                                [webhookSecret |-> WebhookSecretOf(w.webhookId),
                                 webhookId |-> w.webhookId,
                                 configurationId |-> uuidv7(nextId)])],
                  <<"createStripeWebhook">>)
          /\ UNCHANGED <<store, retired>>

\* ------------------------------------------- AppConfigurator.setConfigEntry
\* const { configurations } = await this.getConfig()
SetConfigEntryRead(p) ==
  /\ pc[p] = "setConfigEntry"
  /\ Goto(p, "setConfigEntry.setConfig", [configurations |-> store.configurations],
          <<"getConfig">>)
  /\ UNCHANGED World

\* mutant: the write is refused when the store moved since the read (version check)
SetConfigEntryWrite_VersionChecked(p) ==
  /\ pc[p] = "setConfigEntry.setConfig"
  /\ store.configurations = local[p].configurations
  /\ LET newConfig ==
           [configurations |-> SetConfigEntryList(local[p].configurations, local[p].config)]
     IN /\ store' = AppConfigurator_setConfig(store, newConfig, FALSE)
        /\ Settle(p, "ok", [written |-> newConfig], <<"setConfig">>)
  /\ UNCHANGED <<remote, retired, nextId, nextWebhook>>

\* return this.setConfig({ configurations: ... })
SetConfigEntryWrite(p) ==
  /\ pc[p] = "setConfigEntry.setConfig"
  /\ LET newConfig ==
           [configurations |-> SetConfigEntryList(local[p].configurations, local[p].config)]
     IN /\ store' = AppConfigurator_setConfig(store, newConfig, FALSE)
        /\ Settle(p, "ok", [written |-> newConfig], <<"setConfig">>)
  /\ UNCHANGED <<remote, retired, nextId, nextWebhook>>

\* --------------------------------------------------------- updateConfigEntry
UpdateStart(p, configurationId, entry, serial) ==
  /\ Begin(p, [op |-> "Update", configurationId |-> configurationId, entry |-> entry],
           "getConfigEntryDecrypted", serial)
  /\ UNCHANGED World

\* mutant: a missing entry is not an error, the update goes on to setConfigEntry
GetConfigEntryDecrypted_NoThrow(p) ==
  /\ pc[p] = "getConfigEntryDecrypted"
  /\ UNCHANGED World
  /\ Goto(p, "setConfigEntry",
          [config |-> Spread(local[p].entry, [configurationId |-> local[p].configurationId])],
          <<"getConfig">>)

\* getConfigEntryDecrypted: read all entries, find the one with the id or throw
GetConfigEntryDecrypted(p) ==
  /\ pc[p] = "getConfigEntryDecrypted"
  /\ UNCHANGED World
  /\ LET i == FindIndex(store.configurations, local[p].configurationId)
     IN IF i = 0
        THEN Settle(p, "EntryNotFoundError", NoBind, <<"getConfig">>)
        ELSE Goto(p, "setConfigEntry",
                  [existingEntry |-> store.configurations[i],
                   config |-> Spread(local[p].entry,
                                [configurationId |-> local[p].configurationId])],
                  <<"getConfig">>)

\* --------------------------------------------------------- deleteConfigEntry
DeleteStart(p, configurationId, serial) ==
  /\ Begin(p, [op |-> "Delete", configurationId |-> configurationId], "deleteConfigEntry",
           serial)
  /\ UNCHANGED World

\* mutant: a missing entry is not an error, the delete goes on to the configurator
DeleteLookup_NoThrow(p) ==
  /\ pc[p] = "deleteConfigEntry"
  /\ UNCHANGED World
  /\ LET entries == store.configurations
         i == FindIndex(entries, local[p].configurationId)
     IN IF i = 0
        THEN Goto(p, "configurator.deleteConfigEntry", [isWebhookUsed |-> TRUE],
                  <<"getConfig">>)
        ELSE LET isWebhookUsed == IsWebhookUsed(entries, entries[i], local[p].configurationId)
             IN Goto(p,
                     IF ~isWebhookUsed THEN "deleteStripeWebhook"
                     ELSE "configurator.deleteConfigEntry",
                     [existingEntry |-> entries[i], isWebhookUsed |-> isWebhookUsed],
                     <<"getConfig">>)

\* read all entries, find the entry or throw, decide whether its webhook is still used
DeleteLookup(p) ==
  /\ pc[p] = "deleteConfigEntry"
  /\ UNCHANGED World
  /\ LET entries == store.configurations
         i == FindIndex(entries, local[p].configurationId)
     IN IF i = 0
        THEN Settle(p, "EntryNotFoundError", NoBind, <<"getConfig">>)
        ELSE LET isWebhookUsed == IsWebhookUsed(entries, entries[i], local[p].configurationId)
             IN Goto(p,
                     IF ~isWebhookUsed THEN "deleteStripeWebhook"
                     ELSE "configurator.deleteConfigEntry",
                     [existingEntry |-> entries[i], isWebhookUsed |-> isWebhookUsed],
                     <<"getConfig">>)

\* mutant: the failure of deleteStripeWebhook is not caught
DeleteStripeWebhook_Rethrows(p) ==
  /\ pc[p] = "deleteStripeWebhook"
  /\ \/ /\ remote' = {w \in remote : w.webhookId # Get(local[p].existingEntry, "webhookId")}
        /\ retired' = retired \cup {Get(local[p].existingEntry, "webhookId")}
        /\ Goto(p, "configurator.deleteConfigEntry", [webhookDeleted |-> TRUE],
                <<"deleteStripeWebhook">>)
     \/ /\ UNCHANGED <<remote, retired>>
        /\ Settle(p, "WebhookDeletionError", [webhookDeleted |-> FALSE],
                  <<"deleteStripeWebhook">>)
  /\ UNCHANGED <<store, nextId, nextWebhook>>

\* try { await deleteStripeWebhook(...) } catch { ignore }
DeleteStripeWebhook(p) ==
  /\ pc[p] = "deleteStripeWebhook"
  /\ \/ /\ remote' = {w \in remote : w.webhookId # Get(local[p].existingEntry, "webhookId")}
        /\ retired' = retired \cup {Get(local[p].existingEntry, "webhookId")}
        /\ Goto(p, "configurator.deleteConfigEntry", [webhookDeleted |-> TRUE],
                <<"deleteStripeWebhook">>)
     \/ /\ UNCHANGED <<remote, retired>>
        /\ Goto(p, "configurator.deleteConfigEntry", [webhookDeleted |-> FALSE],
                <<"deleteStripeWebhook">>)
  /\ UNCHANGED <<store, nextId, nextWebhook>>

\* AppConfigurator.deleteConfigEntry: const oldConfig = await this.getConfig()
ConfiguratorDeleteRead(p) ==
  /\ pc[p] = "configurator.deleteConfigEntry"
  /\ Goto(p, "deleteConfigEntry.setConfig", [oldConfig |-> store], <<"getConfig">>)
  /\ UNCHANGED World

\* AppConfigurator.deleteConfigEntry: await this.setConfig({...}, true)
ConfiguratorDeleteWrite(p) ==
  /\ pc[p] = "deleteConfigEntry.setConfig"
  /\ LET newConfig == DeleteConfigEntryConfig(local[p].oldConfig, local[p].configurationId)
     IN /\ store' = AppConfigurator_setConfig(store, newConfig, TRUE)
        /\ Settle(p, "ok", [written |-> newConfig], <<"setConfig">>)
  /\ UNCHANGED <<remote, retired, nextId, nextWebhook>>

\* ------------------------------------------------- setMapping / deleteMapping
SetMappingStart(p, newMapping, serial) ==
  /\ Begin(p, [op |-> "SetMapping", newMapping |-> newMapping], "setMapping", serial)
  /\ UNCHANGED World

DeleteMappingStart(p, channelId, serial) ==
  /\ Begin(p, [op |-> "DeleteMapping", channelId |-> channelId], "deleteMapping", serial)
  /\ UNCHANGED World

\* const { channelToConfigurationId } = await this.getConfig()
MappingRead(p) ==
  /\ pc[p] \in {"setMapping", "deleteMapping"}
  /\ Goto(p, IF pc[p] = "setMapping" THEN "setMapping.setConfig" ELSE "deleteMapping.setConfig",
          [channelToConfigurationId |-> store.channelToConfigurationId], <<"getConfig">>)
  /\ UNCHANGED World

\* mutant: the stored mapping is spread over the new one, so old values win
SetMappingWrite_OldWins(p) ==
  /\ pc[p] = "setMapping.setConfig"
  /\ LET newConfig ==
           [channelToConfigurationId |->
              Spread(local[p].newMapping, local[p].channelToConfigurationId)]
     IN /\ store' = AppConfigurator_setConfig(store, newConfig, FALSE)
        /\ Settle(p, "ok", [written |-> newConfig], <<"setConfig">>)
  /\ UNCHANGED <<remote, retired, nextId, nextWebhook>>

\* return this.setConfig({ channelToConfigurationId: { ...old, ...newMapping } })
SetMappingWrite(p) ==
  /\ pc[p] = "setMapping.setConfig"
  /\ LET newConfig ==
           [channelToConfigurationId |->
              Spread(local[p].channelToConfigurationId, local[p].newMapping)]
     IN /\ store' = AppConfigurator_setConfig(store, newConfig, FALSE)
        /\ Settle(p, "ok", [written |-> newConfig], <<"setConfig">>)
  /\ UNCHANGED <<remote, retired, nextId, nextWebhook>>

\* delete newMapping[channelId]; return this.setConfig({ channelToConfigurationId: newMapping })
DeleteMappingWrite(p) ==
  /\ pc[p] = "deleteMapping.setConfig"
  /\ LET newConfig ==
           [channelToConfigurationId |->
              [c \in (DOMAIN local[p].channelToConfigurationId) \ {local[p].channelId} |->
                 local[p].channelToConfigurationId[c]]]
     IN /\ store' = AppConfigurator_setConfig(store, newConfig, FALSE)
        /\ Settle(p, "ok", [written |-> newConfig], <<"setConfig">>)
  /\ UNCHANGED <<remote, retired, nextId, nextWebhook>>

\* ------------------------------------------------- setConfig and clearConfig
\* the calls of the public setConfig: a partial aggregate and the replace flag
DirectConfigs ==
  {[newConfig |-> [configurations |-> <<>>], replace |-> FALSE],
   [newConfig |-> [channelToConfigurationId |-> <<>>], replace |-> TRUE]}

\* AppConfigurator.setConfig(newConfig, replace) called directly: the call is handed
\* to the configurator and awaited
SetConfigCall(p, newConfig, replace, serial) ==
  /\ Begin(p, [op |-> "SetConfig", newConfig |-> newConfig, replace |-> replace],
           "setConfig", serial)
  /\ UNCHANGED World

\* return this.configurator.setConfig(newConfig, replace)
SetConfigCallWrite(p) ==
  /\ pc[p] = "setConfig"
  /\ store' = AppConfigurator_setConfig(store, local[p].newConfig, local[p].replace)
  /\ Settle(p, "ok", [written |-> local[p].newConfig], <<"setConfig">>)
  /\ UNCHANGED <<remote, retired, nextId, nextWebhook>>

\* AppConfigurator.clearConfig: the schema defaults are parsed and handed to setConfig
ClearConfig(p, serial) ==
  /\ Begin(p, [op |-> "ClearConfig"], "clearConfig.setConfig", serial)
  /\ UNCHANGED World

\* return this.setConfig(defaultConfig, true)
ClearConfigWrite(p) ==
  /\ pc[p] = "clearConfig.setConfig"
  /\ LET defaultConfig == EmptyConfig
     IN /\ store' = AppConfigurator_setConfig(store, defaultConfig, TRUE)
        /\ Settle(p, "ok", [written |-> defaultConfig], <<"setConfig">>)
  /\ UNCHANGED <<remote, retired, nextId, nextWebhook>>

\* ------------------------------------------------ getConfigurationForChannel
\* the transport layer reads the config and resolves a channel of a request
Resolve(p, channelId, serial) ==
  /\ pc[p] = "idle"
  /\ Admit(p, serial)
  /\ pc' = [pc EXCEPT ![p] = "done"]
  /\ local' = [local EXCEPT ![p] =
       [op |-> "Resolve", channelId |-> channelId, appConfig |-> store,
        returned |-> getConfigurationForChannel(store, channelId)]]
  /\ result' = [result EXCEPT ![p] = "ok"]
  /\ calls' = [calls EXCEPT ![p] = <<"getConfig">>]
  /\ startStore' = [startStore EXCEPT ![p] = store]
  /\ UNCHANGED World

\* ------------------------------------------------- transaction session mapper
\* a synchronous pure function is called and settles at once
Call(p, args, outcome) ==
  /\ pc[p] = "idle"
  /\ Admit(p, TRUE)
  /\ pc' = [pc EXCEPT ![p] = "done"]
  /\ local' = [local EXCEPT ![p] =
       IF "returned" \in DOMAIN outcome THEN Spread(args, outcome) ELSE args]
  /\ result' = [result EXCEPT ![p] =
       IF "returned" \in DOMAIN outcome THEN "ok" ELSE outcome.threw]
  /\ calls' = [calls EXCEPT ![p] = <<>>]
  /\ startStore' = [startStore EXCEPT ![p] = store]

\* the initialize-session handler builds the payment intent creation request
BuildCreate(p, event) ==
  /\ Call(p, [op |-> "BuildCreate", event |-> event],
          transactionSessionInitializeEventToStripeCreate(event))
  /\ UNCHANGED World

\* the process-session handler builds the payment intent update request
BuildUpdate(p, event) ==
  /\ Call(p, [op |-> "BuildUpdate", event |-> event],
          transactionSessionProcessEventToStripeUpdate(event))
  /\ UNCHANGED World

\* the handler translates the payment intent Stripe answered with; sourceObject is
\* the source object of the event the intent was created for
TranslateResult(p, transactionFlowStrategy, stripePaymentIntent, sourceObject) ==
  /\ Call(p, [op |-> "TranslateResult", transactionFlowStrategy |-> transactionFlowStrategy,
              stripePaymentIntent |-> stripePaymentIntent, sourceObject |-> sourceObject],
          stripePaymentIntentToTransactionResult(transactionFlowStrategy, stripePaymentIntent))
  /\ UNCHANGED World

\* the caller takes the outcome; the slot is free for the next operation
Return(p) ==
  /\ pc[p] = "done"
  /\ pc' = [pc EXCEPT ![p] = "idle"]
  /\ local' = [local EXCEPT ![p] = Idle]
  /\ result' = [result EXCEPT ![p] = "pending"]
  /\ calls' = [calls EXCEPT ![p] = <<>>]
  /\ startStore' = [startStore EXCEPT ![p] = EmptyConfig]
  /\ UNCHANGED <<World, unserialized>>

\* ------------------------------------------------------------ specifications
\* an operation is invoked on slot p
InvokeEntryOp(p, serial) ==
  \/ \E e \in FormEntries : AddStart(p, e, serial)
  \/ \E id \in IdUniverse, e \in UpdateEntries : UpdateStart(p, id, e, serial)
  \/ \E id \in IdUniverse : DeleteStart(p, id, serial)

Invoke(p, serial) ==
  \/ InvokeEntryOp(p, serial)
  \/ \E m \in NewMappings : SetMappingStart(p, m, serial)
  \/ \E c \in Channels : DeleteMappingStart(p, c, serial)
  \/ \E c \in ChannelInputs : Resolve(p, c, serial)
  \/ \E c \in NullChannelInputs : Resolve(p, c, serial)
  \/ \E call \in DirectConfigs : SetConfigCall(p, call.newConfig, call.replace, serial)
  \/ ClearConfig(p, serial)

\* an operation in flight on slot p resumes after an await
StepEntryOp(p) ==
  \/ ValidateSecretKey(p)
  \/ ValidatePublishableKey(p)
  \/ CreateStripeWebhook(p)
  \/ SetConfigEntryRead(p)
  \/ SetConfigEntryWrite(p)
  \/ GetConfigEntryDecrypted(p)
  \/ DeleteLookup(p)
  \/ DeleteStripeWebhook(p)
  \/ ConfiguratorDeleteRead(p)
  \/ ConfiguratorDeleteWrite(p)

Step(p) ==
  \/ StepEntryOp(p)
  \/ MappingRead(p)
  \/ SetMappingWrite(p)
  \/ DeleteMappingWrite(p)
  \/ SetConfigCallWrite(p)
  \/ ClearConfigWrite(p)
  \/ Return(p)

\* mutations serialized per tenant: at most one operation in flight
Next == \E p \in Procs : Invoke(p, TRUE) \/ Step(p)
Spec == Init /\ [][Next]_vars

\* no external serialization: entry operations interleave at their awaits
NextConc == \E p \in Procs : InvokeEntryOp(p, FALSE) \/ StepEntryOp(p) \/ Return(p)
SpecConc == Init /\ [][NextConc]_vars

\* Add and Delete alone, interleaving at their awaits
NextAddDelete ==
  \E p \in Procs :
    \/ \E e \in FormEntries : AddStart(p, e, FALSE)
    \/ \E id \in IdUniverse : DeleteStart(p, id, FALSE)
    \/ ValidateSecretKey(p)
    \/ ValidatePublishableKey(p)
    \/ CreateStripeWebhook(p)
    \/ SetConfigEntryRead(p)
    \/ SetConfigEntryWrite(p)
    \/ DeleteLookup(p)
    \/ DeleteStripeWebhook(p)
    \/ ConfiguratorDeleteRead(p)
    \/ ConfiguratorDeleteWrite(p)
    \/ Return(p)
SpecAddDelete == Init /\ [][NextAddDelete]_vars

\* the pure functions of the transaction session mapper, applied to every input
NextMapper ==
  \E p \in Procs :
    \/ \E event \in SessionEvents : BuildCreate(p, event)
    \/ \E event \in SessionEvents : BuildUpdate(p, event)
    \/ \E strategy \in Strategies, status \in Statuses, sourceObject \in SourceObjects :
         TranslateResult(p, strategy, [status |-> status], sourceObject)
    \/ Return(p)
SpecMapper == Init /\ [][NextMapper]_vars

\* ------------------------------------------------------------------ claims
Finished(p, op) == pc[p] = "done" /\ local[p].op = op
Bound(p, f) == f \in DOMAIN local[p]

\* what a store must look like after entry X was deleted from `before`
EntryGone(before, after, X) ==
  /\ X \notin IdsOf(after.configurations)
  /\ \A c \in DOMAIN after.channelToConfigurationId : after.channelToConfigurationId[c] # X
  /\ after.configurations = SelectSeq(before.configurations, LAMBDA e : e.configurationId # X)
  /\ DOMAIN after.channelToConfigurationId =
       {c \in DOMAIN before.channelToConfigurationId : before.channelToConfigurationId[c] # X}
  /\ \A c \in DOMAIN after.channelToConfigurationId :
       after.channelToConfigurationId[c] = before.channelToConfigurationId[c]

\* C1: a Delete of an existing entry X that ran serialized leaves a store with no
\* entry X and no mapping to X; the other entries are unchanged and in the same
\* order, and the mappings to other ids are unchanged.
C1_DeleteFrame ==
  \A p \in Procs :
    (Finished(p, "Delete") /\ result[p] = "ok")
      => EntryGone(startStore[p], store, local[p].configurationId)

\* a Delete of the middle one of three entries, with one mapping to it and one to another
C1_Witness ==
  \E p \in Procs :
    /\ Finished(p, "Delete") /\ result[p] = "ok"
    /\ Len(startStore[p].configurations) = 3
    /\ startStore[p].configurations[2].configurationId = local[p].configurationId
    /\ \E c, d \in DOMAIN startStore[p].channelToConfigurationId :
         /\ startStore[p].channelToConfigurationId[c] = local[p].configurationId
         /\ startStore[p].channelToConfigurationId[d] # local[p].configurationId

\* the entries of `configurations` other than X that reference the webhook of X
SharersOf(configurations, X) ==
  {i \in 1..Len(configurations) :
     /\ configurations[i].configurationId # X
     /\ \E j \in 1..Len(configurations) :
          /\ configurations[j].configurationId = X
          /\ configurations[j].webhookId = configurations[i].webhookId}

\* C2: a serialized Delete of entry E attempts the remote webhook deletion if and
\* only if no other entry of the store has the webhookId of E.
C2_WebhookDeletionIffUnshared ==
  \A p \in Procs :
    (Finished(p, "Delete") /\ result[p] = "ok")
      => (("deleteStripeWebhook" \in {calls[p][i] : i \in 1..Len(calls[p])})
            <=> SharersOf(startStore[p].configurations, local[p].configurationId) = {})

\* a Delete of an entry whose webhook another entry shares: no deletion was attempted
C2_Witness ==
  \E p \in Procs :
    /\ Finished(p, "Delete") /\ result[p] = "ok"
    /\ SharersOf(startStore[p].configurations, local[p].configurationId) # {}
    /\ "deleteStripeWebhook" \notin {calls[p][i] : i \in 1..Len(calls[p])}
    /\ Len(store.configurations) >= 1

\* C3: once the remote webhook deletion has failed, the Delete does not end in
\* error, and when it has ended the entry and its mappings are removed exactly as
\* after a successful webhook deletion.
C3_WebhookFailureSwallowed ==
  \A p \in Procs :
    (local[p].op = "Delete" /\ Bound(p, "webhookDeleted") /\ ~local[p].webhookDeleted)
      => /\ result[p] \in {"pending", "ok"}
         /\ pc[p] = "done" =>
              /\ result[p] = "ok"
              /\ EntryGone(startStore[p], store, local[p].configurationId)

\* a finished Delete whose webhook deletion failed, which removed a mapping too
C3_Witness ==
  \E p \in Procs :
    /\ Finished(p, "Delete")
    /\ Bound(p, "webhookDeleted") /\ ~local[p].webhookDeleted
    /\ \E c \in DOMAIN startStore[p].channelToConfigurationId :
         startStore[p].channelToConfigurationId[c] = local[p].configurationId

CallsOf(p) == {calls[p][i] : i \in 1..Len(calls[p])}

\* C4: an Add whose credential validation failed (restricted key, secret key or
\* publishable key rejected) has ended in error, never called the webhook
\* provisioner, and the store is as it was when the Add began.
C4_ValidationFailureAborts ==
  \A p \in Procs :
    (local[p].op = "Add"
       /\ (Bound(p, "failedCheck")
             \/ (pc[p] # "validateStripeKeys"
                   /\ StartsWith(local[p].newConfigEntry.secretKey, rk_))))
      => /\ pc[p] = "done"
         /\ result[p] \notin {"pending", "ok"}
         /\ "createStripeWebhook" \notin CallsOf(p)
         /\ "setConfig" \notin CallsOf(p)
         /\ store = startStore[p]

\* an Add on a non-empty store whose publishable key was rejected
C4_Witness ==
  \E p \in Procs :
    /\ Finished(p, "Add")
    /\ Bound(p, "failedCheck") /\ local[p].failedCheck = "publishableKey"
    /\ Len(store.configurations) >= 1

\* the collaborator calls of a complete Add, in order
AddOrder ==
  <<"paymentIntents.list", "tokens.create", "createStripeWebhook", "getConfig", "setConfig">>

\* C5: the calls of an Add are issued in the order validation, provisioning, store
\* write (each is a prefix of that order, so none begins before the previous one
\* returned); an Add whose provisioning failed has ended in error without a store
\* write, the store being as it was when the Add began.
C5_AddOrder ==
  \A p \in Procs :
    local[p].op = "Add"
      => /\ Len(calls[p]) <= Len(AddOrder)
         /\ calls[p] = SubSeq(AddOrder, 1, Len(calls[p]))
         /\ Bound(p, "provisioningFailed")
              => /\ pc[p] = "done"
                 /\ result[p] \notin {"pending", "ok"}
                 /\ "setConfig" \notin CallsOf(p)
                 /\ store = startStore[p]

\* an Add on a non-empty store that passed validation and failed at provisioning
C5_Witness ==
  \E p \in Procs :
    /\ Finished(p, "Add")
    /\ Bound(p, "provisioningFailed")
    /\ calls[p] = SubSeq(AddOrder, 1, 3)
    /\ Len(store.configurations) >= 1

\* C6: a serialized Update whose configurationId no stored entry has fails with
\* EntryNotFoundError and leaves entries and channel mappings unchanged.
C6_UpdateMissingEntry ==
  \A p \in Procs :
    (Finished(p, "Update")
       /\ local[p].configurationId \notin IdsOf(startStore[p].configurations))
      => /\ result[p] = "EntryNotFoundError"
         /\ store = startStore[p]

\* an Update of an id that was deleted, on a store that still has an entry and a mapping
C6_Witness ==
  \E p \in Procs :
    /\ Finished(p, "Update")
    /\ local[p].configurationId \notin IdsOf(startStore[p].configurations)
    /\ Len(store.configurations) >= 1
    /\ DOMAIN store.channelToConfigurationId # {}
    /\ nextId > 2

\* C7: no two entries of the stored list have the same configurationId, and the
\* id a finished Add assigned is none of the ids the store had when the Add began.
C7_UniqueIds ==
  /\ \A i, j \in 1..Len(store.configurations) :
       store.configurations[i].configurationId = store.configurations[j].configurationId
         => i = j
  /\ \A p \in Procs :
       (Finished(p, "Add") /\ result[p] = "ok")
         => local[p].config.configurationId \notin IdsOf(startStore[p].configurations)

\* an Add that finished after an earlier entry was updated and another deleted
C7_Witness ==
  \E p \in Procs :
    /\ Finished(p, "Add") /\ result[p] = "ok"
    /\ Len(startStore[p].configurations) = 1
    /\ startStore[p].configurations[1].configurationName = "pos"
    /\ Len(store.configurations) = 2
    /\ nextId = 4

\* C8: every value of channelToConfigurationId is the configurationId of a
\* stored entry.
C8_MappingsReferenceEntries ==
  \A c \in DOMAIN store.channelToConfigurationId :
    store.channelToConfigurationId[c] \in IdsOf(store.configurations)

\* C9: getConfigurationForChannel returns the entry whose configurationId is the
\* id the channel is mapped to when the channel is mapped and such an entry
\* exists, and null in every other case (channelId missing, no mapping, or a
\* mapped id that no entry has).
C9_ResolveChannel ==
  \A p \in Procs :
    Finished(p, "Resolve")
      => LET appConfig == local[p].appConfig
             channelId == local[p].channelId
             present == \E c \in Channels : ToString(c) = ToString(channelId)
             mapped == present /\ channelId \in DOMAIN appConfig.channelToConfigurationId
             resolves ==
               mapped /\ appConfig.channelToConfigurationId[channelId]
                           \in IdsOf(appConfig.configurations)
         IN /\ result[p] = "ok"
            /\ IF resolves
               THEN /\ \E i \in 1..Len(appConfig.configurations) :
                         local[p].returned = appConfig.configurations[i]
                    /\ local[p].returned.configurationId =
                         appConfig.channelToConfigurationId[channelId]
               ELSE local[p].returned = Null

\* a channel resolved to an entry that is not the first of the list, while the
\* other channel is mapped to an id that no entry has
C9_Witness ==
  \E p \in Procs :
    /\ Finished(p, "Resolve")
    /\ Len(local[p].appConfig.configurations) >= 2
    /\ local[p].returned = local[p].appConfig.configurations[2]
    /\ \E c \in DOMAIN local[p].appConfig.channelToConfigurationId :
         local[p].appConfig.channelToConfigurationId[c]
           \notin IdsOf(local[p].appConfig.configurations)

\* C10: nothing protects a mutation against a concurrent one.  A write that was
\* computed from a read the store has since moved away from is still performed
\* (there is no lock and no version check), and it installs what was computed
\* from that read, whatever the store holds at the moment of the write.
C10_NoLostUpdateProtection ==
  /\ [](\A p \in Procs :
          /\ pc[p] = "setConfigEntry.setConfig" => ENABLED SetConfigEntryWrite(p)
          /\ pc[p] = "deleteConfigEntry.setConfig" => ENABLED ConfiguratorDeleteWrite(p))
  /\ [][\A p \in Procs :
          /\ (pc[p] = "setConfigEntry.setConfig" /\ pc'[p] = "done")
               => store'.configurations =
                    SetConfigEntryList(local[p].configurations, local[p].config)
          /\ (pc[p] = "deleteConfigEntry.setConfig" /\ pc'[p] = "done")
               => EntryGone(local[p].oldConfig, store', local[p].configurationId)]_vars

\* two Adds, the only operations ever invoked, have both returned normally and
\* the store holds the entry of one of them only: the other update is lost
C10_Witness ==
  /\ unserialized = 2
  /\ \A p \in Procs : Finished(p, "Add") /\ result[p] = "ok"
  /\ Len(store.configurations) = 1
  /\ \E p \in Procs :
       local[p].config.configurationId \notin IdsOf(store.configurations)

\* the translation table of the specification: prefix per strategy, suffix per status
TablePrefix == (Authorization :> "AUTHORIZATION") @@ (Charge :> "CHARGE")
TableSuffix ==
  ("requires_payment_method" :> "_REQUESTED") @@ ("processing" :> "_REQUESTED")
    @@ ("requires_action" :> "_ACTION_REQUIRED") @@ ("requires_capture" :> "_ACTION_REQUIRED")
    @@ ("requires_confirmation" :> "_ACTION_REQUIRED")
    @@ ("canceled" :> "_FAILURE") @@ ("succeeded" :> "_SUCCESS")

\* C11: for the strategies Authorization and Charge and every handled status the
\* result translation returns prefix + suffix of the table, whatever the source
\* object (Checkout or Order) of the event is.
C11_ResultTable ==
  \A p \in Procs :
    (Finished(p, "TranslateResult")
       /\ local[p].transactionFlowStrategy \in DOMAIN TablePrefix
       /\ local[p].stripePaymentIntent.status \in DOMAIN TableSuffix)
      => /\ result[p] = "ok"
         /\ Bound(p, "returned")
         /\ local[p].returned =
              TablePrefix[local[p].transactionFlowStrategy]
                \o TableSuffix[local[p].stripePaymentIntent.status]

\* an intent waiting for capture, translated for an Authorization on an Order
C11_Witness ==
  \E p \in Procs :
    /\ Finished(p, "TranslateResult")
    /\ local[p].transactionFlowStrategy = Authorization
    /\ local[p].stripePaymentIntent.status = "requires_capture"
    /\ local[p].sourceObject.__typename = "Order"
    /\ local[p].returned = "AUTHORIZATION_ACTION_REQUIRED"

\* C12: for a valid strategy and a status outside the handled ones the result
\* translation signals the unhandled status: it throws, or it returns a value
\* that is not undefined.
C12_UnhandledStatusSignalled ==
  \A p \in Procs :
    (Finished(p, "TranslateResult")
       /\ local[p].transactionFlowStrategy \in {Authorization, Charge}
       /\ local[p].stripePaymentIntent.status \notin HandledStatuses)
      => \/ result[p] # "ok"
         \/ (Bound(p, "returned") /\ local[p].returned # Undefined)

\* C19: the result translation called with a strategy that is neither
\* Authorization nor Charge throws the invariant violation, for every status, and
\* returns nothing.
C19_UnknownStrategyThrows ==
  \A p \in Procs :
    (Finished(p, "TranslateResult")
       /\ local[p].transactionFlowStrategy \notin {Authorization, Charge})
      => /\ result[p] = "InvariantError"
         /\ ~Bound(p, "returned")

\* an unknown strategy with a status that has a table entry
C19_Witness ==
  \E p \in Procs :
    /\ Finished(p, "TranslateResult")
    /\ local[p].transactionFlowStrategy \notin {Authorization, Charge}
    /\ local[p].stripePaymentIntent.status = "succeeded"

\* C20: the create and update requests built from a session event have
\* capture_method automatic for Charge and manual for Authorization, whatever
\* capture_method the payload of the event carries.
C20_CaptureMethod ==
  \A p \in Procs :
    ((Finished(p, "BuildCreate") \/ Finished(p, "BuildUpdate")) /\ result[p] = "ok")
      => /\ local[p].event.action.actionType = Charge
              => local[p].returned.capture_method = "automatic"
         /\ local[p].event.action.actionType = Authorization
              => local[p].returned.capture_method = "manual"

\* a create request for a Charge whose payload asks for manual capture
C20_Witness ==
  \E p \in Procs :
    /\ Finished(p, "BuildCreate") /\ result[p] = "ok"
    /\ local[p].event.action.actionType = Charge
    /\ "capture_method" \in DOMAIN local[p].event.data
    /\ local[p].event.data.capture_method = "manual"

\* C13: after a serialized setMapping or setConfigEntry write, getConfig (the
\* store) returns for the field that was written exactly the written value, and
\* the other top-level field of the aggregate as it was before the operation.
C13_WriteThenRead ==
  \A p \in Procs :
    (pc[p] = "done" /\ local[p].op \in {"SetMapping", "Add", "Update"} /\ result[p] = "ok")
      => /\ DOMAIN store = {"configurations", "channelToConfigurationId"}
         /\ DOMAIN local[p].written \in
              {{"configurations"}, {"channelToConfigurationId"}}
         /\ \A f \in DOMAIN store :
              store[f] = IF f \in DOMAIN local[p].written
                         THEN local[p].written[f] ELSE startStore[p][f]

\* a setMapping on a store that has entries and a mapping of the other channel
C13_Witness ==
  \E p \in Procs :
    /\ Finished(p, "SetMapping") /\ result[p] = "ok"
    /\ Len(startStore[p].configurations) >= 2
    /\ DOMAIN startStore[p].channelToConfigurationId # {}
    /\ store.channelToConfigurationId # startStore[p].channelToConfigurationId

\* the live calls an entry operation can make
LiveCalls ==
  {"paymentIntents.list", "tokens.create", "createStripeWebhook", "deleteStripeWebhook"}

\* C14: a serialized Update of an existing entry leaves the entry at its position
\* with its configurationId, each supplied field at the supplied value and each
\* omitted field at its prior value; every other entry, the entry count and the
\* channel mappings are as before, and no validation or webhook call was made.
C14_UpdateInPlace ==
  \A p \in Procs :
    (Finished(p, "Update") /\ result[p] = "ok")
      => LET before == startStore[p].configurations
             after == store.configurations
             i == FindIndex(before, local[p].configurationId)
             supplied == local[p].entry
         IN /\ i # 0
            /\ Len(after) = Len(before)
            /\ \A j \in 1..Len(before) : j # i => after[j] = before[j]
            /\ after[i].configurationId = local[p].configurationId
            /\ DOMAIN after[i] = DOMAIN before[i] \cup DOMAIN supplied
            /\ \A f \in DOMAIN after[i] \ {"configurationId"} :
                 after[i][f] = IF f \in DOMAIN supplied THEN supplied[f] ELSE before[i][f]
            /\ store.channelToConfigurationId = startStore[p].channelToConfigurationId
            /\ CallsOf(p) \cap LiveCalls = {}

\* an Update that changed the second of three entries, with a channel mapped
C14_Witness ==
  \E p \in Procs :
    /\ Finished(p, "Update") /\ result[p] = "ok"
    /\ Len(startStore[p].configurations) = 3
    /\ FindIndex(startStore[p].configurations, local[p].configurationId) = 2
    /\ store.configurations[2] # startStore[p].configurations[2]
    /\ store.configurations[2].secretKey = startStore[p].configurations[2].secretKey
    /\ DOMAIN store.channelToConfigurationId # {}

\* C15: a serialized setMapping(m) leaves the old mapping overridden by m, a
\* serialized deleteMapping(c) leaves the old mapping without key c and every
\* other key as it was; neither changes the configurations list.
C15_MappingFrame ==
  \A p \in Procs :
    LET old == startStore[p].channelToConfigurationId
        new == store.channelToConfigurationId
    IN /\ (Finished(p, "SetMapping") /\ result[p] = "ok")
            => LET m == local[p].newMapping
               IN /\ DOMAIN new = DOMAIN old \cup DOMAIN m
                  /\ \A c \in DOMAIN m : new[c] = m[c]
                  /\ \A c \in DOMAIN old \ DOMAIN m : new[c] = old[c]
                  /\ store.configurations = startStore[p].configurations
       /\ (Finished(p, "DeleteMapping") /\ result[p] = "ok")
            => /\ DOMAIN new = DOMAIN old \ {local[p].channelId}
               /\ \A c \in DOMAIN new : new[c] = old[c]
               /\ store.configurations = startStore[p].configurations

\* a setMapping that overrode the value of one channel and kept the other channel
C15_Witness ==
  \E p \in Procs :
    /\ Finished(p, "SetMapping") /\ result[p] = "ok"
    /\ \E c \in DOMAIN local[p].newMapping :
         /\ c \in DOMAIN startStore[p].channelToConfigurationId
         /\ startStore[p].channelToConfigurationId[c] # local[p].newMapping[c]
    /\ DOMAIN startStore[p].channelToConfigurationId \ DOMAIN local[p].newMapping # {}
    /\ startStore[p].configurations # <<>>

\* a deleteMapping that removed one of two mapped channels
C15_DeleteWitness ==
  \E p \in Procs :
    /\ Finished(p, "DeleteMapping") /\ result[p] = "ok"
    /\ local[p].channelId \in DOMAIN startStore[p].channelToConfigurationId
    /\ DOMAIN store.channelToConfigurationId # {}

\* C16: a serialized Delete whose configurationId no stored entry has (an id
\* never stored, or one a previous Delete removed) fails with EntryNotFoundError,
\* has attempted no webhook deletion and no write, and leaves the store unchanged.
C16_DeleteMissingEntry ==
  \A p \in Procs :
    (Finished(p, "Delete")
       /\ local[p].configurationId \notin IdsOf(startStore[p].configurations))
      => /\ result[p] = "EntryNotFoundError"
         /\ "deleteStripeWebhook" \notin CallsOf(p)
         /\ "setConfig" \notin CallsOf(p)
         /\ store = startStore[p]

\* a Delete of an id that an earlier Add stored and that is stored no longer
\* (removed by an earlier Delete, or by a clearing write), while another entry, a
\* mapping and a live webhook remain
C16_Witness ==
  \E p \in Procs :
    /\ Finished(p, "Delete")
    /\ local[p].configurationId \notin IdsOf(startStore[p].configurations)
    /\ \E n \in 1..(nextId - 1) : local[p].configurationId = uuidv7(n)
    /\ Len(store.configurations) >= 1
    /\ DOMAIN store.channelToConfigurationId # {}
    /\ remote # {}

\* C17: an Add whose secret key has the restricted-key prefix ends with
\* RestrictedKeyNotSupportedError and issues no live check; for other keys the
\* secret-key check is the first call, and the publishable-key check is issued
\* only directly after it and only when the secret-key check did not fail.
C17_ValidationOrder ==
  \A p \in Procs :
    (pc[p] # "idle" /\ local[p].op = "Add")
      => LET restricted == StartsWith(local[p].newConfigEntry.secretKey, rk_)
             secretFailed == Bound(p, "failedCheck") /\ local[p].failedCheck = "secretKey"
         IN /\ restricted
                 => /\ CallsOf(p) \cap {"paymentIntents.list", "tokens.create"} = {}
                    /\ pc[p] \in {"validateStripeKeys", "done"}
                    /\ pc[p] = "done" => result[p] = "RestrictedKeyNotSupportedError"
            /\ (~restricted /\ pc[p] # "validateStripeKeys")
                 => calls[p][1] = "paymentIntents.list"
            /\ \A i \in 1..Len(calls[p]) :
                 calls[p][i] = "tokens.create"
                   => /\ i = 2
                      /\ calls[p][1] = "paymentIntents.list"
                      /\ ~secretFailed
            /\ secretFailed => "tokens.create" \notin CallsOf(p)

\* an Add with a restricted secret key has ended, on a store that has an entry
C17_Witness ==
  \E p \in Procs :
    /\ Finished(p, "Add")
    /\ StartsWith(local[p].newConfigEntry.secretKey, rk_)
    /\ result[p] = "RestrictedKeyNotSupportedError"
    /\ calls[p] = <<>>
    /\ store.configurations # <<>>

\* an Add whose secret key passed and whose publishable key was then checked
C17_OrderWitness ==
  \E p \in Procs :
    /\ local[p].op = "Add"
    /\ Len(calls[p]) >= 2
    /\ calls[p][2] = "tokens.create"

\* C18: when a live credential check failed, the error the Add ended with
\* carries the fieldName of the key whose check failed (secretKey for the
\* secret-key check, publishableKey for the publishable-key check).
C18_FieldHintNamesFailedKey ==
  \A p \in Procs :
    (Finished(p, "Add") /\ Bound(p, "failedCheck"))
      => FieldNameOf(result[p]) = local[p].failedCheck

\* the metadata keys the request builders set themselves
ReservedMetadataKeys == {"transactionId", "channelId", "checkoutId", "orderId"}

\* C21: the metadata of a built create or update request carries transactionId
\* and channelId of the event and exactly one of checkoutId / orderId, the one of
\* the source object's type, and keeps every non-reserved key of the payload's
\* metadata.
C21_RequestMetadata ==
  \A p \in Procs :
    ((Finished(p, "BuildCreate") \/ Finished(p, "BuildUpdate")) /\ result[p] = "ok")
      => LET event == local[p].event
             metadata == local[p].returned.metadata
             supplied == IF "metadata" \in DOMAIN event.data THEN event.data.metadata
                         ELSE EmptyObject
         IN /\ metadata.transactionId = event.transaction.id
            /\ metadata.channelId = event.sourceObject.channel.id
            /\ event.sourceObject.__typename = "Checkout"
                 => /\ "orderId" \notin DOMAIN metadata
                    /\ "checkoutId" \in DOMAIN metadata
                    /\ metadata.checkoutId = event.sourceObject.id
            /\ event.sourceObject.__typename = "Order"
                 => /\ "checkoutId" \notin DOMAIN metadata
                    /\ "orderId" \in DOMAIN metadata
                    /\ metadata.orderId = event.sourceObject.id
            /\ \A k \in DOMAIN supplied \ ReservedMetadataKeys :
                 k \in DOMAIN metadata /\ metadata[k] = supplied[k]

\* the fields of an entry that a completed Add has assembled
AssembledFields == {"secretKey", "publishableKey", "webhookId", "webhookSecret"}

\* C22: in every reachable state, interleaved Add, Update and Delete included,
\* every entry of the stored list carries secretKey, publishableKey, webhookId
\* and webhookSecret.
C22_EntriesFullyAssembled ==
  \A i \in 1..Len(store.configurations) :
    AssembledFields \subseteq DOMAIN store.configurations[i]

\* C23: once the Add and Delete operations in flight have completed, whatever
\* their interleaving, no stored entry references a webhook that a Delete has
\* deleted at the processor.
C23_NoEntryReferencesRetiredWebhook ==
  (\A p \in Procs : pc[p] \in {"idle", "done"})
    => \A i \in 1..Len(store.configurations) :
         Get(store.configurations[i], "webhookId") \notin retired

====
